---- MODULE Spec2Model ----
(***************************************************************************)
(* Model of the commerce.txt service: the Cozy Knits bundle scanner and    *)
(* key repair (app/services/effulgent_parser.py), the J.Crew payload       *)
(* parser (app/services/jcrew_parser.py), the Product schema               *)
(* (app/schemas.py) and the Markdown compressor                            *)
(* (app/services/compression.py).                                          *)
(*                                                                         *)
(* Python strings are sequences of one-character strings; Python indices   *)
(* are 0-based, so text[i] is At(text, i) and text[a:b] is Slice(text,a,b).*)
(***************************************************************************)
EXTENDS Integers, Sequences, FiniteSets, TLC

VARIABLES
    pc,                     \* position of the call being modelled
    text, start_idx, blob,  \* _extract_array: arguments and outcome
    literal, json_blob,     \* KEY_RE.sub: extracted literal and repaired text
    vendor, data, product,  \* _to_product: vendor, raw record, outcome
    max_description_chars, description, trimmed,   \* MarkdownCompressor._trim
    payload, limit, parsed, \* parse_html / parse_js: source, limit, outcome
    products, title, markdown,  \* build_listing: arguments and document
    output_path             \* write_markdown: the file written

vars == <<pc, text, start_idx, blob, literal, json_blob, vendor, data, product,
          max_description_chars, description, trimmed, payload, limit, parsed,
          products, title, markdown, output_path>>

scanVars    == <<text, start_idx, blob>>
repairVars  == <<literal, json_blob>>
mapVars     == <<vendor, data, product>>
trimVars    == <<max_description_chars, description, trimmed>>
parseVars   == <<payload, limit, parsed>>
listingVars == <<products, title, markdown, output_path>>

-----------------------------------------------------------------------------
(* Python string helpers *)

At(s, i) == s[i + 1]

Min(a, b) == IF a < b THEN a ELSE b
Max(a, b) == IF a > b THEN a ELSE b

\* s[a:b] for 0 <= a, 0 <= b
Slice(s, a, b) == SubSeq(s, a + 1, Min(b, Len(s)))

\* every string of at most n characters over the alphabet
StringsUpTo(alphabet, n) == UNION {[1..k -> alphabet] : k \in 0..n}

\* an outcome of a call: a returned value, or a raised error
Returned(v) == [ok |-> TRUE, val |-> v, err |-> "none"]
Raised(e)   == [ok |-> FALSE, val |-> <<>>, err |-> e]
NotCalled   == [ok |-> FALSE, val |-> <<>>, err |-> "not called"]

-----------------------------------------------------------------------------
(* EffulgentParser._extract_array *)

QUOTE  == "\""
SQUOTE == "'"
BSLASH == "\\"

\* the while loop of lines 71-72: first index >= i holding "[", or len(text)
RECURSIVE SkipToOpen(_, _)
SkipToOpen(txt, i) ==
    IF i < Len(txt) /\ At(txt, i) # "["
    THEN SkipToOpen(txt, i + 1)
    ELSE i

\* the for loop of lines 80-99, from index j with the loop's local state
RECURSIVE ScanLoop(_, _, _, _, _, _, _)
ScanLoop(txt, i, j, depth, in_string, escape, quote_char) ==
    IF j >= Len(txt)
    THEN Raised("Array closing bracket not found.")
    ELSE LET ch == At(txt, j) IN
         IF in_string
         THEN IF escape
              THEN ScanLoop(txt, i, j + 1, depth, TRUE, FALSE, quote_char)
              ELSE IF ch = BSLASH
              THEN ScanLoop(txt, i, j + 1, depth, TRUE, TRUE, quote_char)
              ELSE IF ch = quote_char
              THEN ScanLoop(txt, i, j + 1, depth, FALSE, FALSE, quote_char)
              ELSE ScanLoop(txt, i, j + 1, depth, TRUE, FALSE, quote_char)
         ELSE IF ch \in {QUOTE, SQUOTE}
              THEN ScanLoop(txt, i, j + 1, depth, TRUE, escape, ch)
              ELSE IF ch = "["
              THEN ScanLoop(txt, i, j + 1, depth + 1, FALSE, escape, quote_char)
              ELSE IF ch = "]"
              THEN IF depth - 1 = 0
                   THEN Returned(Slice(txt, i, j + 1))
                   ELSE ScanLoop(txt, i, j + 1, depth - 1, FALSE, escape, quote_char)
              ELSE ScanLoop(txt, i, j + 1, depth, FALSE, escape, quote_char)

\* the scanner with the backslash branch (lines 85-86) left out
RECURSIVE ScanLoopNoEscape(_, _, _, _, _, _)
ScanLoopNoEscape(txt, i, j, depth, in_string, quote_char) ==
    IF j >= Len(txt)
    THEN Raised("Array closing bracket not found.")
    ELSE LET ch == At(txt, j) IN
         IF in_string
         THEN ScanLoopNoEscape(txt, i, j + 1, depth, ch # quote_char, quote_char)
         ELSE IF ch \in {QUOTE, SQUOTE}
              THEN ScanLoopNoEscape(txt, i, j + 1, depth, TRUE, ch)
              ELSE IF ch = "["
              THEN ScanLoopNoEscape(txt, i, j + 1, depth + 1, FALSE, quote_char)
              ELSE IF ch = "]"
              THEN IF depth - 1 = 0
                   THEN Returned(Slice(txt, i, j + 1))
                   ELSE ScanLoopNoEscape(txt, i, j + 1, depth - 1, FALSE, quote_char)
              ELSE ScanLoopNoEscape(txt, i, j + 1, depth, FALSE, quote_char)

extract_array_no_escape(txt, start) ==
    LET i == SkipToOpen(txt, start) IN
    IF i >= Len(txt)
    THEN Raised("Array opening bracket not found.")
    ELSE ScanLoopNoEscape(txt, i, i, 0, FALSE, "")

\* the scanner that answers the end of input with the text read so far
extract_array_to_end(txt, start) ==
    LET i == SkipToOpen(txt, start)
        found == ScanLoop(txt, i, i, 0, FALSE, FALSE, "")
    IN  IF i >= Len(txt)
        THEN Raised("Array opening bracket not found.")
        ELSE IF found.ok THEN found
        ELSE Returned(Slice(txt, i, Len(txt)))

extract_array(txt, start) ==
    LET i == SkipToOpen(txt, start) IN
    IF i >= Len(txt)
    THEN Raised("Array opening bracket not found.")
    ELSE ScanLoop(txt, i, i, 0, FALSE, FALSE, "")

-----------------------------------------------------------------------------
(* Idle values of the variables a specification does not use *)

IdleScan    == text = <<>> /\ start_idx = 0 /\ blob = NotCalled
IdleRepair  == literal = <<>> /\ json_blob = <<>>
IdleMap     == vendor = "none" /\ data = <<>> /\ product = NotCalled
IdleTrim    == max_description_chars = 0 /\ description = <<>> /\ trimmed = <<>>
IdleParse   == payload = <<>> /\ limit = 0 /\ parsed = NotCalled
\* the file at output_path: missing, or holding bytes
NoFile == [exists |-> FALSE, content |-> <<>>]
File(bytes) == [exists |-> TRUE, content |-> bytes]

IdleListing ==
    products = <<>> /\ title = <<>> /\ markdown = <<>> /\ output_path = NoFile

-----------------------------------------------------------------------------
(* Specification of the boundary scanner: _extract_array on every text of  *)
(* at most MaxBody characters and on the worked example of the design.     *)

MaxBody  == 6
MaxStart == 1

ScanChars == {"[", "]", QUOTE, SQUOTE, BSLASH, "a"}

\* ["a\"b",[1]] : a string with an escaped quote, then a nested array
ScanExample ==
    <<"[", QUOTE, "a", BSLASH, QUOTE, "b", QUOTE, ",", "[", "1", "]", "]">>

ScanTexts == StringsUpTo(ScanChars, MaxBody) \cup {ScanExample}

InitScan ==
    /\ pc = "call"
    /\ text \in ScanTexts
    /\ start_idx \in 0..MaxStart
    /\ blob = NotCalled
    /\ IdleRepair /\ IdleMap /\ IdleTrim /\ IdleParse /\ IdleListing

ExtractArray ==
    /\ pc = "call"
    /\ blob' = extract_array(text, start_idx)
    /\ pc' = "done"
    /\ UNCHANGED <<text, start_idx, repairVars, mapVars, trimVars, parseVars,
                   listingVars>>

NextScan == ExtractArray

SpecScan == InitScan /\ [][NextScan]_vars

-----------------------------------------------------------------------------
(* Reference reading of a text for the scanner claims: string literals as  *)
(* spans between an opening quote and the next quote of the same style     *)
(* that is preceded by an even number of backslashes.                      *)

Indices(txt) == 0..(Len(txt) - 1)

\* number of consecutive backslashes right before q, after the opening quote
BackslashRun(txt, open, q) ==
    LET runs == {n \in 0..(q - open - 1) :
                    \A m \in 1..n : At(txt, q - m) = BSLASH}
    IN  CHOOSE n \in runs : \A k \in runs : k <= n

ClosesString(txt, open, q) ==
    /\ q > open
    /\ At(txt, q) = At(txt, open)
    /\ BackslashRun(txt, open, q) % 2 = 0

\* index of the quote closing the string opened at open; len(text) if none
StringClose(txt, open) ==
    LET closers == {q \in Indices(txt) : ClosesString(txt, open, q)}
    IN  IF closers = {} THEN Len(txt)
        ELSE CHOOSE q \in closers : \A r \in closers : q <= r

\* the opening quotes of the string literals met when reading from index from
RECURSIVE StringOpens(_, _)
StringOpens(txt, from) ==
    LET quotes == {p \in Indices(txt) : p >= from /\ At(txt, p) \in {QUOTE, SQUOTE}}
    IN  IF quotes = {} THEN {}
        ELSE LET o == CHOOSE p \in quotes : \A r \in quotes : p <= r
             IN  {o} \cup StringOpens(txt, StringClose(txt, o) + 1)

\* the first "[" at or after start, or -1
FirstOpen(txt, start) ==
    LET opens == {p \in Indices(txt) : p >= start /\ At(txt, p) = "["}
    IN  IF opens = {} THEN -1
        ELSE CHOOSE p \in opens : \A r \in opens : p <= r

\* the indices from the first "[" on that lie in a string literal, quotes included
InString(txt, start) ==
    LET opens == StringOpens(txt, FirstOpen(txt, start))
    IN  {p \in Indices(txt) : \E o \in opens : o <= p /\ p <= StringClose(txt, o)}

\* nesting depth after index j, counted outside string literals
DepthAfter(txt, start, strs, j) ==
    LET i == FirstOpen(txt, start)
    IN  Cardinality({p \in i..j : At(txt, p) = "[" /\ p \notin strs})
        - Cardinality({p \in i..j : At(txt, p) = "]" /\ p \notin strs})

\* the indices at which the depth is back to zero
BalancePoints(txt, start) ==
    LET i == FirstOpen(txt, start)
        strs == InString(txt, start)
    IN  IF i = -1 THEN {}
        ELSE {j \in Indices(txt) : j >= i /\ DepthAfter(txt, start, strs, j) = 0}

FirstBalance(txt, start) ==
    LET pts == BalancePoints(txt, start)
    IN  CHOOSE j \in pts : \A r \in pts : j <= r

\* C1: whenever a "[" at or after the start position has a balanced bracket,
\* _extract_array returns exactly the text from that "[" to the "]" at which the
\* depth counted outside string literals first returns to zero; brackets, quotes
\* of the other style and escaped quotes inside a string change nothing.
C1_BalancedArrayReturned ==
    (pc = "done" /\ BalancePoints(text, start_idx) # {}) =>
        blob = Returned(Slice(text, FirstOpen(text, start_idx),
                              FirstBalance(text, start_idx) + 1))

\* an escaped quote inside a string literal of the returned array, with a nested
\* array after it
C1_Witness ==
    /\ pc = "done"
    /\ blob.ok
    /\ LET i == FirstOpen(text, start_idx)
           strs == InString(text, start_idx)
           opens == StringOpens(text, i)
       IN  /\ \E p \in strs :
                 /\ At(text, p) = QUOTE
                 /\ p \notin opens
                 /\ \A o \in opens : StringClose(text, o) # p
                 /\ p < i + Len(blob.val)
                 /\ \E b \in (p + 1)..(i + Len(blob.val) - 2) :
                        At(text, b) = "]" /\ b \notin strs

\* Specification for termination: the scanner on every text of at most
\* MaxLiveBody characters, called whenever it stays able to run
MaxLiveBody == 5

InitScanLive ==
    /\ pc = "call"
    /\ text \in StringsUpTo(ScanChars, MaxLiveBody) \cup {ScanExample}
    /\ start_idx \in 0..MaxStart
    /\ blob = NotCalled
    /\ IdleRepair /\ IdleMap /\ IdleTrim /\ IdleParse /\ IdleListing

SpecScanLive == InitScanLive /\ [][NextScan]_vars /\ WF_vars(ExtractArray)

\* the string literal the input ends in, if any: its opening quote
OpenLiteral(txt, start) ==
    {o \in StringOpens(txt, FirstOpen(txt, start)) : StringClose(txt, o) = Len(txt)}

ScannerFails ==
    pc = "done" =>
        /\ FirstOpen(text, start_idx) = -1 =>
              blob = Raised("Array opening bracket not found.")
        /\ (FirstOpen(text, start_idx) # -1 /\ BalancePoints(text, start_idx) = {}) =>
              blob = Raised("Array closing bracket not found.")

\* C14: for every text and start position _extract_array terminates, and it
\* fails with the extraction error, never returning a substring, when no "["
\* occurs at or after the start position or when the input ends before the depth
\* returns to zero, also when the input ends inside a string literal.
C14_ScannerFailure == []ScannerFails /\ <>(pc = "done")

\* the input ends inside a string literal that holds a "]", after an open array
C14_Witness ==
    /\ pc = "done"
    /\ FirstOpen(text, start_idx) # -1
    /\ \E o \in OpenLiteral(text, start_idx) :
          \E p \in (o + 1)..(Len(text) - 1) : At(text, p) = "]"
    /\ blob = Raised("Array closing bracket not found.")

-----------------------------------------------------------------------------
(* EffulgentParser.KEY_RE and _quote_keys: the key-quoting substitution    *)

\* \s of the pattern
Whitespace == {" ", "\t", "\n", "\r"}

\* [A-Za-z0-9_] of the pattern
KeyChars ==
    {"a", "b", "c", "d", "e", "f", "g", "h", "i", "j", "k", "l", "m", "n", "o",
     "p", "q", "r", "s", "t", "u", "v", "w", "x", "y", "z",
     "A", "B", "C", "D", "E", "F", "G", "H", "I", "J", "K", "L", "M", "N", "O",
     "P", "Q", "R", "S", "T", "U", "V", "W", "X", "Y", "Z",
     "0", "1", "2", "3", "4", "5", "6", "7", "8", "9", "_"}

\* first index >= i whose character is not in the class, or len(text)
RECURSIVE SkipClass(_, _, _)
SkipClass(txt, i, class) ==
    IF i < Len(txt) /\ At(txt, i) \in class
    THEN SkipClass(txt, i + 1, class)
    ELSE i

NoMatch == [found |-> FALSE, key |-> <<>>, end |-> -1]

\* KEY_RE.match at index p: (?P<prefix>[{,])\s*(?P<key>[A-Za-z0-9_]+)\s*:
\* The three classes and ":" are disjoint, so the greedy match is the only one.
KEY_RE_match(txt, p) ==
    IF ~(p < Len(txt) /\ At(txt, p) \in {"{", ","})
    THEN NoMatch
    ELSE LET b == SkipClass(txt, p + 1, Whitespace)
             c == SkipClass(txt, b, KeyChars)
             d == SkipClass(txt, c, Whitespace)
         IN  IF c > b /\ d < Len(txt) /\ At(txt, d) = ":"
             THEN [found |-> TRUE, key |-> Slice(txt, b, c), end |-> d + 1]
             ELSE NoMatch

\* f'{prefix} "{key}":'
quote_keys(prefix, key) == <<prefix, " ", QUOTE>> \o key \o <<QUOTE, ":">>

\* KEY_RE.sub(self._quote_keys, blob): leftmost non-overlapping matches
RECURSIVE SubFrom(_, _)
SubFrom(txt, p) ==
    IF p >= Len(txt) THEN <<>>
    ELSE LET m == KEY_RE_match(txt, p) IN
         IF m.found
         THEN quote_keys(At(txt, p), m.key) \o SubFrom(txt, m.end)
         ELSE <<At(txt, p)>> \o SubFrom(txt, p + 1)

KEY_RE_sub(blob_) == SubFrom(blob_, 0)

-----------------------------------------------------------------------------
(* Specification of the syntax repair: the substitution applied to array   *)
(* literals of one object whose first value is a string.                   *)

MaxValue == 4

ValueChars == {",", "{", ":", " ", "k"}

\* a key as written in the bundle, with optional blanks around it
KeyForms == {<<"k">>, <<" ", "k">>, <<"k", " ">>, <<"i", "d">>}

StringValues == {<<QUOTE>> \o v \o <<QUOTE>> : v \in StringsUpTo(ValueChars, MaxValue)}

\* [{key:"value"}] and [{key:"value",key:1}]
RepairLiterals ==
    {<<"[", "{">> \o k \o <<":">> \o v \o rest \o <<"}", "]">> :
        k \in KeyForms, v \in StringValues,
        rest \in {<<>>, <<",", "n", ":", "1">>}}

InitRepair ==
    /\ pc = "call"
    /\ literal \in RepairLiterals
    /\ json_blob = <<>>
    /\ IdleScan /\ IdleMap /\ IdleTrim /\ IdleParse /\ IdleListing

\* json_blob = self.KEY_RE.sub(self._quote_keys, blob)
QuoteKeys ==
    /\ pc = "call"
    /\ json_blob' = KEY_RE_sub(literal)
    /\ pc' = "done"
    /\ UNCHANGED <<literal, scanVars, mapVars, trimVars, parseVars, listingVars>>

NextRepair == QuoteKeys

SpecRepair == InitRepair /\ [][NextRepair]_vars

\* the contents of the string literals of a text, in order
RECURSIVE StringContents(_, _)
StringContents(txt, from) ==
    LET opens == StringOpens(txt, from)
    IN  IF opens = {} THEN <<>>
        ELSE LET o == CHOOSE p \in opens : \A r \in opens : p <= r
                 c == StringClose(txt, o)
             IN  <<Slice(txt, o + 1, c)>> \o StringContents(txt, c + 1)

\* what the repaired text must hold as strings: each string value as it is,
\* and each bare key that follows "{" or "," outside the string values
RECURSIVE KeysAndValues(_, _)
KeysAndValues(txt, p) ==
    IF p >= Len(txt) THEN <<>>
    ELSE IF At(txt, p) \in {QUOTE, SQUOTE}
    THEN LET c == StringClose(txt, p)
         IN  <<Slice(txt, p + 1, c)>> \o KeysAndValues(txt, c + 1)
    ELSE LET m == KEY_RE_match(txt, p) IN
         IF m.found
         THEN <<m.key>> \o KeysAndValues(txt, m.end)
         ELSE KeysAndValues(txt, p + 1)

\* C2: the key-quoting substitution double-quotes every bare identifier key
\* that follows "{" or "," and leaves every string value unchanged, also when
\* the value holds text of the shape ", word:" or "{word:": the strings of the
\* repaired literal are exactly the keys and the string values of the literal.
C2_KeysQuotedValuesKept ==
    pc = "done" =>
        StringContents(json_blob, 0) = KeysAndValues(literal, 0)

-----------------------------------------------------------------------------
(* Python str methods used by the mappers and the compressor *)

RECURSIVE lstrip(_)
lstrip(s) == IF s # <<>> /\ Head(s) \in Whitespace THEN lstrip(Tail(s)) ELSE s

RECURSIVE rstrip(_)
rstrip(s) ==
    IF s # <<>> /\ s[Len(s)] \in Whitespace
    THEN rstrip(SubSeq(s, 1, Len(s) - 1))
    ELSE s

strip(s) == rstrip(lstrip(s))

UpperCase == <<"A", "B", "C", "D", "E", "F", "G", "H", "I", "J", "K", "L", "M",
               "N", "O", "P", "Q", "R", "S", "T", "U", "V", "W", "X", "Y", "Z">>
LowerCase == <<"a", "b", "c", "d", "e", "f", "g", "h", "i", "j", "k", "l", "m",
               "n", "o", "p", "q", "r", "s", "t", "u", "v", "w", "x", "y", "z">>

lower_char(ch) ==
    IF \E k \in 1..Len(UpperCase) : UpperCase[k] = ch
    THEN LowerCase[CHOOSE k \in 1..Len(UpperCase) : UpperCase[k] = ch]
    ELSE ch

lower(s) == [k \in 1..Len(s) |-> lower_char(s[k])]

\* s.replace(old, new) for a one-character old and new
replace_char(s, old, new) == [k \in 1..Len(s) |-> IF s[k] = old THEN new ELSE s[k]]

startswith(s, prefix) ==
    Len(s) >= Len(prefix) /\ SubSeq(s, 1, Len(prefix)) = prefix

\* s.split(sep) for a one-character separator: always at least one part
RECURSIVE split(_, _)
split(s, sep) ==
    LET hits == {k \in 1..Len(s) : s[k] = sep} IN
    IF hits = {} THEN <<s>>
    ELSE LET k == CHOOSE h \in hits : \A g \in hits : h <= g
         IN  <<SubSeq(s, 1, k - 1)>> \o split(SubSeq(s, k + 1, Len(s)), sep)

\* sep.join(parts)
RECURSIVE join(_, _)
join(sep, parts) ==
    IF parts = <<>> THEN <<>>
    ELSE IF Len(parts) = 1 THEN parts[1]
    ELSE parts[1] \o sep \o join(sep, Tail(parts))

Digits == <<"0", "1", "2", "3", "4", "5", "6", "7", "8", "9">>

\* str(n) for an integer n >= 0
RECURSIVE int_str(_)
int_str(n) ==
    IF n < 10 THEN <<Digits[n + 1]>>
    ELSE int_str(n \div 10) \o <<Digits[(n % 10) + 1]>>

-----------------------------------------------------------------------------
(* Values of a decoded raw record.  A field holds a string, a number, None *)
(* (JSON null), or is absent from the mapping.                             *)

Absent  == [kind |-> "absent", n |-> 0, s |-> <<>>]
None    == [kind |-> "none", n |-> 0, s |-> <<>>]
Str(s)  == [kind |-> "str", n |-> 0, s |-> s]
Num(n)  == [kind |-> "num", n |-> n, s |-> <<>>]

\* data.get(key): an absent key reads as None
get(v) == IF v.kind = "absent" THEN None ELSE v

\* data.get(key, default)
get_default(v, default) == IF v.kind = "absent" THEN default ELSE v

\* Python truth value
truthy(v) == (v.kind = "str" /\ v.s # <<>>) \/ (v.kind = "num" /\ v.n # 0)

\* a or b
or_else(a, b) == IF truthy(a) THEN a ELSE b

\* str(v), as in an f-string
str(v) ==
    IF v.kind = "str" THEN v.s
    ELSE IF v.kind = "num" THEN int_str(v.n)
    ELSE <<"N", "o", "n", "e">>

-----------------------------------------------------------------------------
(* app/schemas.py: Product *)

NAME_MIN_LENGTH        == 2
DESCRIPTION_MIN_LENGTH == 4
CURRENCY_MIN_LENGTH    == 3
CURRENCY_MAX_LENGTH    == 5

HTTP  == <<"h", "t", "t", "p", ":", "/", "/">>
HTTPS == <<"h", "t", "t", "p", "s", ":", "/", "/">>
USD   == <<"U", "S", "D">>

\* HttpUrl: an http or https scheme followed by a host
HttpUrl(u) ==
    \/ startswith(u, HTTP) /\ Len(u) > Len(HTTP)
    \/ startswith(u, HTTPS) /\ Len(u) > Len(HTTPS)

\* the fields of a Product that fail validation, in field order
InvalidFields(p) ==
    (IF Len(p.name) < NAME_MIN_LENGTH THEN <<"name">> ELSE <<>>)
    \o (IF Len(p.description) < DESCRIPTION_MIN_LENGTH
        THEN <<"description">> ELSE <<>>)
    \o (IF p.price < 0 THEN <<"price">> ELSE <<>>)
    \o (IF Len(p.currency) < CURRENCY_MIN_LENGTH
           \/ Len(p.currency) > CURRENCY_MAX_LENGTH
        THEN <<"currency">> ELSE <<>>)
    \o (IF ~HttpUrl(p.url) THEN <<"url">> ELSE <<>>)

\* Product(...): the validated model, or a ValidationError naming the fields
Product(p) ==
    IF InvalidFields(p) = <<>>
    THEN Returned(p)
    ELSE [ok |-> FALSE, val |-> InvalidFields(p), err |-> "ValidationError"]

-----------------------------------------------------------------------------
(* Nested values of a raw record: a list of values, a mapping *)

AbsentList   == [kind |-> "absent", items |-> <<>>]
NoneList     == [kind |-> "none", items |-> <<>>]
List(items)  == [kind |-> "list", items |-> items]

\* data.get(key) or []
items_or_empty(l) == IF l.kind = "list" THEN l.items ELSE <<>>

\* (data.get(key) or {}).get(field), for a mapping with the given field
dict_get(d, field) == IF d.kind = "dict" THEN get(d[field]) ELSE None

\* the (key, value) entries of a metadata dict, in insertion order
Entry(k, v) == [key |-> k, value |-> v]

HasKey(metadata, k) == \E e \in 1..Len(metadata) : metadata[e].key = k

-----------------------------------------------------------------------------
(* app/services/jcrew_parser.py: the J.Crew field mapper *)

JCREW_BASE_URL == <<"h", "t", "t", "p", "s", ":", "/", "/", "w", "w", "w", ".", "j", "c", "r", "e", "w", ".", "c", "o", "m">>

CATEGORY_STOP_WORDS ==
    {<<"m", "e", "n", "s">>,
     <<"w", "o", "m", "e", "n">>,
     <<"c", "a", "t", "e", "g", "o", "r", "i", "e", "s">>,
     <<"c", "l", "o", "t", "h", "i", "n", "g">>}

\* _resolve_price
JCrew_resolve_price(d) ==
    LET search_price == get(d.searchPrice)
        amount == dict_get(d.listPrice, "amount")
    IN  IF truthy(search_price) THEN search_price.n
        ELSE IF amount.kind # "none" THEN amount.n
        ELSE 0

\* _resolve_url
JCrew_resolve_url(path) ==
    LET stripped == strip(path) IN
    IF startswith(stripped, HTTP) \/ startswith(stripped, HTTPS)
    THEN stripped
    ELSE JCREW_BASE_URL \o stripped

\* lines 103-108: the tags of the category path
RECURSIVE JCrew_category_tags(_)
JCrew_category_tags(parts) ==
    IF parts = <<>> THEN <<>>
    ELSE LET normalized == strip(Head(parts)) IN
         (IF normalized # <<>> /\ lower(normalized) \notin CATEGORY_STOP_WORDS
          THEN <<replace_char(lower(normalized), "-", " ")>>
          ELSE <<>>)
         \o JCrew_category_tags(Tail(parts))

\* lines 110-113: the tags of the color variants
RECURSIVE JCrew_color_tags(_)
JCrew_color_tags(colors) ==
    IF colors = <<>> THEN <<>>
    ELSE LET color_name == strip(or_else(get(Head(colors)), Str(<<>>)).s) IN
         (IF color_name # <<>> THEN <<lower(color_name)>> ELSE <<>>)
         \o JCrew_color_tags(Tail(colors))

\* lines 115-117: the tag of the badge
JCrew_badge_tags(d) ==
    LET badge_label == dict_get(d.badge, "label") IN
    IF truthy(badge_label) THEN <<lower(badge_label.s)>> ELSE <<>>

\* lines 101-117: the tags before de-duplication
JCrew_tag_tokens(d) ==
    JCrew_category_tags(split(or_else(get(d.primaryCategoryId), Str(<<>>)).s, "|"))
    \o JCrew_color_tags(items_or_empty(d.colors))
    \o JCrew_badge_tags(d)

\* lines 119-124: keep the first occurrence of each tag
RECURSIVE unique_tags(_, _)
unique_tags(tags, seen) ==
    IF tags = <<>> THEN <<>>
    ELSE IF Head(tags) \in seen
    THEN unique_tags(Tail(tags), seen)
    ELSE <<Head(tags)>> \o unique_tags(Tail(tags), seen \cup {Head(tags)})

\* _build_tags
JCrew_build_tags(d) == unique_tags(JCrew_tag_tokens(d), {})

\* str(x) if x else None
str_if_truthy(v) == IF truthy(v) THEN Str(str(v)) ELSE None

\* the key -> source field map of _build_metadata (lines 128-137)
JCrew_metadata_sources(d) ==
    << Entry("product_code", get(d.productCode)),
       Entry("primary_category", get(d.primaryCategoryId)),
       Entry("badge", dict_get(d.badge, "label")),
       Entry("list_price", dict_get(d.listPrice, "formatted")),
       Entry("search_price", get(d.searchPrice)),
       Entry("url_path", get(d.url)),
       Entry("rating", get(d.bvAverageRating)),
       Entry("reviews", get(d.bvReviewCount)) >>

\* the mappings dict of _build_metadata (lines 128-137)
JCrew_metadata_mappings(d) ==
    LET src == JCrew_metadata_sources(d) IN
    [k \in 1..Len(src) |->
        IF src[k].key \in {"search_price", "rating", "reviews"}
        THEN Entry(src[k].key, str_if_truthy(src[k].value))
        ELSE src[k]]

\* lines 139-141, kept when the value is truthy
RECURSIVE truthy_entries(_)
truthy_entries(mappings) ==
    IF mappings = <<>> THEN <<>>
    ELSE (IF truthy(Head(mappings).value)
          THEN <<Entry(Head(mappings).key, str(Head(mappings).value))>>
          ELSE <<>>)
         \o truthy_entries(Tail(mappings))

\* _build_metadata
JCrew_build_metadata(d) == truthy_entries(JCrew_metadata_mappings(d))

\* _to_product
JCrew_to_product(d) ==
    LET name == or_else(or_else(get(d.productDescription), get(d.productCode)),
                        Str(<<"P", "r", "o", "d", "u", "c", "t">>))
        desc == or_else(get(d.promoMessageOverride), name)
    IN  IF name.kind # "str" \/ desc.kind # "str"
        THEN Raised("AttributeError")    \* a number has no strip()
        ELSE
        Product([name |-> strip(name.s),
                 description |-> strip(desc.s),
                 price |-> JCrew_resolve_price(d),
                 currency |-> USD,
                 url |-> JCrew_resolve_url(or_else(get(d.url), Str(<<>>)).s),
                 tags |-> JCrew_build_tags(d),
                 availability |-> get(d.extendedSize),
                 metadata |-> JCrew_build_metadata(d)])

-----------------------------------------------------------------------------
(* app/services/effulgent_parser.py: the Cozy Knits field mapper *)

COZY_BASE_URL == <<"h", "t", "t", "p", "s", ":", "/", "/", "m", "o", "c", "k", "u", "p", "-", "m", "e", "r", "c", "h", "a", "n", "t", ".", "v", "e", "r", "c", "e", "l", ".", "a", "p", "p">>

\* _build_tags
RECURSIVE Cozy_color_tags(_)
Cozy_color_tags(colors) ==
    IF colors = <<>> THEN <<>>
    ELSE LET color_name == strip(or_else(get(Head(colors)), Str(<<>>)).s) IN
         (IF color_name # <<>> THEN <<lower(color_name)>> ELSE <<>>)
         \o Cozy_color_tags(Tail(colors))

Cozy_build_tags(d) ==
    LET category == strip(or_else(get(d.category), Str(<<>>)).s) IN
    (IF category # <<>> THEN <<lower(category)>> ELSE <<>>)
    \o Cozy_color_tags(items_or_empty(d.colors))

\* the key -> source field map of _build_metadata (lines 139-145)
Cozy_metadata_sources(d) ==
    << Entry("id", get(d.id)),
       Entry("image", get(d.image)),
       Entry("rating", get(d.rating)),
       Entry("reviews", get(d.reviews)),
       Entry("sizes", d.sizes) >>

\* ", ".join(data.get("sizes") or [])
Cozy_sizes(d) ==
    Str(join(<<",", " ">>, [k \in 1..Len(items_or_empty(d.sizes)) |->
                                items_or_empty(d.sizes)[k].s]))

\* the mappings dict of _build_metadata (lines 139-145)
Cozy_metadata_mappings(d) ==
    << Entry("id", get(d.id)),
       Entry("image", get(d.image)),
       Entry("rating", get(d.rating)),
       Entry("reviews", get(d.reviews)),
       Entry("sizes", Cozy_sizes(d)) >>

\* lines 147-149, kept when the value is truthy or equal to 0
RECURSIVE truthy_or_zero_entries(_)
truthy_or_zero_entries(mappings) ==
    IF mappings = <<>> THEN <<>>
    ELSE (IF truthy(Head(mappings).value) \/ Head(mappings).value = Num(0)
          THEN <<Entry(Head(mappings).key, str(Head(mappings).value))>>
          ELSE <<>>)
         \o truthy_or_zero_entries(Tail(mappings))

\* _build_metadata
Cozy_build_metadata(d) == truthy_or_zero_entries(Cozy_metadata_mappings(d))

\* _to_product
Cozy_to_product(d) ==
    LET name == or_else(get(d.name),
                        Str(<<"P", "r", "o", "d", "u", "c", "t", " ">>
                            \o str(get_default(d.id, Str(<<"N", "/", "A">>)))))
        desc == or_else(get(d.description), name)
        price == or_else(get(d.price), Num(0)).n
        url == COZY_BASE_URL \o <<"/", "p", "r", "o", "d", "u", "c", "t", "/">>
               \o str(get_default(d.id, Num(0))) \o <<"/">>
    IN  IF name.kind # "str" \/ desc.kind # "str"
        THEN Raised("AttributeError")    \* a number has no strip()
        ELSE
        Product([name |-> strip(name.s),
                 description |-> strip(desc.s),
                 price |-> price,
                 currency |-> USD,
                 url |-> url,
                 tags |-> Cozy_build_tags(d),
                 availability |-> Str(<<"i", "n", "_", "s", "t", "o", "c", "k">>),
                 metadata |-> Cozy_build_metadata(d)])

-----------------------------------------------------------------------------
(* Specification of the field mappers: _to_product of either vendor on raw *)
(* records that vary the name fields, the tag fields, the metadata fields  *)
(* or the price fields, every other field being absent.                    *)

MaxName   == 4
MaxTokens == 2
MaxPrice  == 2

AbsentDict == [kind |-> "absent", amount |-> Absent, formatted |-> Absent,
               label |-> Absent]
NoneDict   == [kind |-> "none", amount |-> Absent, formatted |-> Absent,
               label |-> Absent]
ListPrice(amount, formatted) ==
    [kind |-> "dict", amount |-> amount, formatted |-> formatted, label |-> Absent]
Badge(label) ==
    [kind |-> "dict", amount |-> Absent, formatted |-> Absent, label |-> label]

JCrewBlank ==
    [productDescription |-> Absent, productCode |-> Absent,
     promoMessageOverride |-> Absent, searchPrice |-> Absent,
     listPrice |-> AbsentDict, url |-> Absent, primaryCategoryId |-> Absent,
     colors |-> AbsentList, badge |-> AbsentDict, extendedSize |-> Absent,
     bvAverageRating |-> Absent, bvReviewCount |-> Absent]

CozyBlank ==
    [name |-> Absent, id |-> Absent, description |-> Absent, price |-> Absent,
     category |-> Absent, colors |-> AbsentList, image |-> Absent,
     rating |-> Absent, reviews |-> Absent, sizes |-> AbsentList]

\* absent, null, empty, blank and short texts of at most n characters
NameValues(n) == {Absent, None} \cup {Str(t) : t \in StringsUpTo({" ", "x"}, n)}

CodeValues == {Absent, Str(<<>>), Str(<<"c">>), Str(<<"c", "1">>)}

\* words that repeat outright or differ only in letter case
TagWords == {<<"N", "y">>, <<"n", "y">>, <<"N", "Y">>, <<"M", "e", "n", "s">>, <<"v", "-", "n">>}

\* category paths of at most n words
CategoryValues(n) ==
    {Absent, None}
    \cup {Str(join(<<"|">>, parts)) :
            parts \in UNION {[1..k -> TagWords] : k \in 0..n}}

ColorNames == {None, Str(<<>>), Str(<<"N", "y">>), Str(<<"n", "y">>), Str(<<"v", "-", "n">>)}

\* color lists of at most n names
ColorLists(n) ==
    {AbsentList, NoneList}
    \cup {List(c) : c \in UNION {[1..k -> ColorNames] : k \in 0..n}}

BadgeValues == {AbsentDict, NoneDict, Badge(None), Badge(Str(<<"N", "y">>)), Badge(Str(<<"n", "y">>))}

\* absent, null and the numbers 0..n
Counts(n) == {Absent, None} \cup {Num(k) : k \in 0..n}

PriceDicts(n) ==
    {AbsentDict, NoneDict}
    \cup {ListPrice(a, f) : a \in Counts(n), f \in {Absent, Str(<<"$", "5">>)}}

JCrewNameRecords(n) ==
    {[JCrewBlank EXCEPT !.productDescription = a, !.productCode = b,
                        !.promoMessageOverride = c] :
        a \in NameValues(n), b \in CodeValues, c \in NameValues(n)}

JCrewTagRecords(n) ==
    {[JCrewBlank EXCEPT !.primaryCategoryId = a, !.colors = b, !.badge = c] :
        a \in CategoryValues(n), b \in ColorLists(n), c \in BadgeValues}

JCrewPriceRecords(n) ==
    {[JCrewBlank EXCEPT !.searchPrice = a, !.listPrice = b, !.bvReviewCount = c,
                        !.bvAverageRating = e, !.url = u] :
        a \in Counts(n), b \in PriceDicts(n), c \in Counts(n),
        e \in {Absent, Num(0), Num(4)},
        u \in {Absent, Str(<<>>), Str(<<"/", "p", "/", "1">>)}}

SizeLists == {AbsentList, NoneList, List(<<>>), List(<<Str(<<"S">>)>>),
              List(<<Str(<<"S">>), Str(<<"M">>)>>)}

CozyNameRecords(n) ==
    {[CozyBlank EXCEPT !.name = a, !.id = b, !.description = c] :
        a \in NameValues(n), b \in Counts(1), c \in NameValues(n)}

CozyTagRecords(n) ==
    {[CozyBlank EXCEPT !.category = a, !.colors = b] :
        a \in {Absent, None, Str(<<>>)} \cup {Str(w) : w \in TagWords},
        b \in ColorLists(n)}

CozyMetaRecords(n) ==
    {[CozyBlank EXCEPT !.id = a, !.image = b, !.rating = c, !.reviews = e,
                       !.sizes = f, !.price = g] :
        a \in Counts(n), b \in {Absent, Str(<<>>), Str(<<"i", ".", "p", "n", "g">>)}, c \in Counts(n),
        e \in Counts(n), f \in SizeLists, g \in Counts(n)}

\* the raw records of a vendor that the mappers are applied to
Records(v) ==
    IF v = "jcrew"
    THEN JCrewNameRecords(MaxName) \cup JCrewTagRecords(MaxTokens)
         \cup JCrewPriceRecords(MaxPrice)
    ELSE CozyNameRecords(MaxName) \cup CozyTagRecords(MaxTokens)
         \cup CozyMetaRecords(MaxPrice)

InitMap ==
    /\ pc = "call"
    /\ vendor \in {"jcrew", "cozy"}
    /\ data \in Records(vendor)
    /\ product = NotCalled
    /\ IdleScan /\ IdleRepair /\ IdleTrim /\ IdleParse /\ IdleListing

to_product(v, d) ==
    IF v = "jcrew" THEN JCrew_to_product(d) ELSE Cozy_to_product(d)

\* self._to_product(entry)
ToProduct ==
    /\ pc = "call"
    /\ product' = to_product(vendor, data)
    /\ pc' = "done"
    /\ UNCHANGED <<vendor, data, scanVars, repairVars, trimVars, parseVars,
                   listingVars>>

NextMap == ToProduct

SpecMap == InitMap /\ [][NextMap]_vars

\* the first occurrence of each element, in order
RECURSIVE FirstOccurrences(_)
FirstOccurrences(ts) ==
    IF ts = <<>> THEN <<>>
    ELSE LET n == Len(ts) IN
         FirstOccurrences(SubSeq(ts, 1, n - 1))
         \o (IF \E j \in 1..(n - 1) : ts[j] = ts[n] THEN <<>> ELSE <<ts[n]>>)

\* the lowercased category, color and badge tokens of a raw record, as met
TagTokens(v, d) ==
    IF v = "jcrew" THEN JCrew_tag_tokens(d) ELSE Cozy_build_tags(d)

\* C3: for a raw record of either vendor whose category, color or badge tokens
\* repeat outright or differ only in letter case, the tags of the Product hold
\* each lowercased token exactly once, in first-seen order.
C3_TagsDeduplicated ==
    (pc = "done" /\ product.ok) =>
        LET tags == product.val.tags IN
        /\ \A i, j \in 1..Len(tags) : tags[i] = tags[j] => i = j
        /\ tags = FirstOccurrences(TagTokens(vendor, data))

\* a source value that is present: a number (0 included) or a non-empty
\* string or list
Present(v) ==
    \/ v.kind = "num"
    \/ v.kind = "str" /\ v.s # <<>>
    \/ v.kind = "list" /\ v.items # <<>>

MetadataSources(v, d) ==
    IF v = "jcrew" THEN JCrew_metadata_sources(d) ELSE Cozy_metadata_sources(d)

\* C5: for a raw record of either vendor, each key of the vendor's metadata map
\* is in the Product's metadata exactly when its source value is present; a
\* present value of 0 is included, an absent or empty value is omitted.
C5_MetadataPresence ==
    (pc = "done" /\ product.ok) =>
        LET src == MetadataSources(vendor, data) IN
        \A k \in 1..Len(src) :
            HasKey(product.val.metadata, src[k].key) <=> Present(src[k].value)

\* C6: for every raw record, whatever its name and description fields hold
\* (absent, empty, blank or short), _to_product returns a Product whose name and
\* description satisfy the minimum lengths of the schema.
C6_NameDescriptionTotal ==
    pc = "done" =>
        /\ product.ok
        /\ Len(product.val.name) >= NAME_MIN_LENGTH
        /\ Len(product.val.description) >= DESCRIPTION_MIN_LENGTH

\* C10: the price of a J.Crew Product is the searchPrice of the record whenever
\* the record carries one (for every numeric value), otherwise listPrice.amount
\* when that is present, otherwise 0.0.
C10_PriceFallbackOrder ==
    (pc = "done" /\ vendor = "jcrew" /\ product.ok) =>
        product.val.price =
            IF get(data.searchPrice).kind = "num" THEN data.searchPrice.n
            ELSE IF dict_get(data.listPrice, "amount").kind = "num"
            THEN data.listPrice.amount.n
            ELSE 0

-----------------------------------------------------------------------------
(* app/services/compression.py: MarkdownCompressor._trim *)

ELLIPSIS == <<".", ".", ".">>

\* s[:b], where a negative b counts from the end
SliceTo(s, b) ==
    IF b >= 0 THEN SubSeq(s, 1, Min(b, Len(s)))
    ELSE SubSeq(s, 1, Max(Len(s) + b, 0))

\* _trim with "<" for "<=" on line 46
trim_strict(max_chars, txt) ==
    LET stripped == strip(txt) IN
    IF Len(stripped) < max_chars
    THEN stripped
    ELSE rstrip(SliceTo(stripped, max_chars - 3)) \o ELLIPSIS

\* _trim, for a compressor built with max_description_chars = max_chars
trim(max_chars, txt) ==
    LET stripped == strip(txt) IN
    IF Len(stripped) <= max_chars
    THEN stripped
    ELSE rstrip(SliceTo(stripped, max_chars - 3)) \o ELLIPSIS

-----------------------------------------------------------------------------
(* Specification of the description budget: _trim for every budget up to   *)
(* MaxChars on every description of at most one character more.            *)

MaxChars == 5

TrimChars == {"a", "b", " "}

InitTrim ==
    /\ pc = "call"
    /\ max_description_chars \in 1..MaxChars
    /\ description \in StringsUpTo(TrimChars, MaxChars + 1)
    /\ trimmed = <<>>
    /\ IdleScan /\ IdleRepair /\ IdleMap /\ IdleParse /\ IdleListing

\* desc = self._trim(product.description)
Trim ==
    /\ pc = "call"
    /\ trimmed' = trim(max_description_chars, description)
    /\ pc' = "done"
    /\ UNCHANGED <<max_description_chars, description, scanVars, repairVars,
                   mapVars, parseVars, listingVars>>

NextTrim == Trim

SpecTrim == InitTrim /\ [][NextTrim]_vars

EndsInEllipsis(s) ==
    Len(s) >= 3 /\ SubSeq(s, Len(s) - 2, Len(s)) = ELLIPSIS

\* the text between the first and the last character that is not whitespace
Core(s) ==
    LET solid == {k \in 1..Len(s) : s[k] \notin Whitespace} IN
    IF solid = {} THEN <<>>
    ELSE SubSeq(s, CHOOSE k \in solid : \A j \in solid : k <= j,
                   CHOOSE k \in solid : \A j \in solid : k >= j)

\* C4 as stated: a description of exactly max_description_chars characters is
\* left untouched, and every description one character longer becomes a string
\* of exactly max_description_chars characters that ends in "...".
C4_TruncationBoundary ==
    pc = "done" =>
        /\ Len(description) = max_description_chars => trimmed = description
        /\ Len(description) = max_description_chars + 1 =>
              Len(trimmed) = max_description_chars /\ EndsInEllipsis(trimmed)

\* C4 amended: a description of exactly max_description_chars characters is
\* returned stripped of surrounding whitespace (untouched when it has none); one
\* that is a character longer is returned stripped, without ellipsis, when it
\* has surrounding whitespace, and otherwise becomes its first
\* max_description_chars - 3 characters, right-trimmed, followed by "...": for
\* max_description_chars >= 3 at most max_description_chars characters, and
\* exactly that many when the last character kept is not whitespace.
C4_TruncationBoundaryAmended ==
    pc = "done" =>
        LET m == max_description_chars
            d == description
        IN  /\ Len(d) = m => trimmed = Core(d)
            /\ (Len(d) = m + 1 /\ Core(d) # d) => trimmed = Core(d)
            /\ (Len(d) = m + 1 /\ Core(d) = d) =>
                  /\ EndsInEllipsis(trimmed)
                  /\ m >= 3 =>
                        /\ Len(trimmed) <= m
                        /\ SubSeq(trimmed, 1, Len(trimmed) - 3)
                              = Core(SubSeq(d, 1, m - 3))
                        /\ (m = 3 \/ d[m - 3] \notin Whitespace) => Len(trimmed) = m

\* a description one character over the budget whose cut ends in whitespace:
\* the result is shorter than the budget
C4_Witness ==
    /\ pc = "done"
    /\ Len(description) = max_description_chars + 1
    /\ Core(description) = description
    /\ max_description_chars > 3
    /\ description[max_description_chars - 3] \in Whitespace
    /\ EndsInEllipsis(trimmed)
    /\ Len(trimmed) < max_description_chars


\* C16: for every positive max_description_chars and every description, the
\* string returned by _trim is at most max_description_chars characters long.
C16_DescriptionBudget ==
    pc = "done" => Len(trimmed) <= max_description_chars

-----------------------------------------------------------------------------
(* EffulgentParser._find_array_blob *)

ARRAY_PREFIXES ==
    << <<"c", "o", "n", "s", "t", " ", "w", "f", "=">>,
       <<"l", "e", "t", " ", "w", "f", "=">>,
       <<"v", "a", "r", " ", "w", "f", "=">>,
       <<"c", "o", "n", "s", "t", " ", "t", "=">>,
       <<"l", "e", "t", " ", "t", "=">>,
       <<"v", "a", "r", " ", "t", "=">> >>

\* text.find(sub): the lowest index at which sub occurs, or -1
find(txt, sub) ==
    LET hits == {i \in 0..(Len(txt) - Len(sub)) : Slice(txt, i, i + Len(sub)) = sub}
    IN  IF hits = {} THEN -1
        ELSE CHOOSE i \in hits : \A j \in hits : i <= j

\* the for loop of lines 60-65, from the k-th prefix on
RECURSIVE FindFrom(_, _)
FindFrom(txt, k) ==
    IF k > Len(ARRAY_PREFIXES)
    THEN Raised("No known product array prefix found in Cozy Knits bundle.")
    ELSE LET idx == find(txt, ARRAY_PREFIXES[k]) IN
         IF idx = -1
         THEN FindFrom(txt, k + 1)
         ELSE extract_array(txt, idx + Len(ARRAY_PREFIXES[k]))

\* _find_array_blob that takes the prefix occurring earliest in the text
find_array_blob_earliest(txt) ==
    LET found == {k \in 1..Len(ARRAY_PREFIXES) : find(txt, ARRAY_PREFIXES[k]) # -1} IN
    IF found = {}
    THEN Raised("No known product array prefix found in Cozy Knits bundle.")
    ELSE LET k == CHOOSE a \in found :
                     \A b \in found :
                         find(txt, ARRAY_PREFIXES[a]) <= find(txt, ARRAY_PREFIXES[b])
         IN  extract_array(txt, find(txt, ARRAY_PREFIXES[k]) + Len(ARRAY_PREFIXES[k]))

find_array_blob(txt) == FindFrom(txt, 1)

-----------------------------------------------------------------------------
(* Specification of the prefix search: _find_array_blob on bundles made of *)
(* at most MaxSegments pieces: assignments of either variable name, array  *)
(* literals, an open bracket and a statement end.                          *)

MaxSegments == 4

Segments ==
    {ARRAY_PREFIXES[1], ARRAY_PREFIXES[4], ARRAY_PREFIXES[6],
     <<"[", "1", "]">>, <<"[", "2", "]">>, <<"[">>, <<";">>}

RECURSIVE concat(_)
concat(parts) == IF parts = <<>> THEN <<>> ELSE Head(parts) \o concat(Tail(parts))

BundlesOf(n) == {concat(parts) : parts \in UNION {[1..k -> Segments] : k \in 0..n}}

InitFind ==
    /\ pc = "call"
    /\ text \in BundlesOf(MaxSegments)
    /\ start_idx = 0
    /\ blob = NotCalled
    /\ IdleRepair /\ IdleMap /\ IdleTrim /\ IdleParse /\ IdleListing

\* self._find_array_blob(text)
FindArrayBlob ==
    /\ pc = "call"
    /\ blob' = find_array_blob(text)
    /\ pc' = "done"
    /\ UNCHANGED <<text, start_idx, repairVars, mapVars, trimVars, parseVars,
                   listingVars>>

NextFind == FindArrayBlob

SpecFind == InitFind /\ [][NextFind]_vars

\* the positions at which a prefix occurs in the text
Occurrences(txt, prefix) ==
    {i \in 0..(Len(txt) - Len(prefix)) : Slice(txt, i, i + Len(prefix)) = prefix}

\* the ranks of the prefixes that occur somewhere in the text
PresentPrefixes(txt) ==
    {k \in 1..Len(ARRAY_PREFIXES) : Occurrences(txt, ARRAY_PREFIXES[k]) # {}}

\* the array after the first occurrence of the highest-priority prefix present
ArrayAfterBest(txt) ==
    LET best == CHOOSE k \in PresentPrefixes(txt) : \A j \in PresentPrefixes(txt) : k <= j
        occ == Occurrences(txt, ARRAY_PREFIXES[best])
        first == CHOOSE i \in occ : \A j \in occ : i <= j
    IN  extract_array(txt, first + Len(ARRAY_PREFIXES[best]))

\* C15 as stated: _find_array_blob extracts the array after the first occurrence
\* of the highest-priority prefix that occurs anywhere in the text, and it fails
\* exactly when none of the prefixes occurs.
C15_PrefixPriority ==
    pc = "done" =>
        /\ PresentPrefixes(text) # {} => blob = ArrayAfterBest(text)
        /\ ~blob.ok <=> PresentPrefixes(text) = {}

\* C15 amended: _find_array_blob answers with the outcome of _extract_array
\* after the first occurrence of the highest-priority prefix that occurs
\* anywhere in the text, an error when no balanced array follows it; it fails
\* with the no-prefix error exactly when none of the prefixes occurs.
C15_PrefixPriorityAmended ==
    pc = "done" =>
        /\ PresentPrefixes(text) # {} => blob = ArrayAfterBest(text)
        /\ blob = Raised("No known product array prefix found in Cozy Knits bundle.")
              <=> PresentPrefixes(text) = {}

\* a lower-priority prefix and its array come first, the array returned is the
\* one after the higher-priority prefix
C15_Witness ==
    /\ pc = "done"
    /\ text = ARRAY_PREFIXES[6] \o <<"[", "1", "]">>
              \o ARRAY_PREFIXES[1] \o <<"[", "2", "]">>
    /\ blob = Returned(<<"[", "2", "]">>)

-----------------------------------------------------------------------------
(* parse_html and parse_js.  A source is read through the standard regex   *)
(* and JSON readers, which are modelled by their outcome: the J.Crew page  *)
(* holds the script marker or not, its payload decodes or not, and the     *)
(* decoded payload is a tree of containers; the decoded value of the Cozy  *)
(* Knits literal is an error, a mapping or a list of entries.              *)

\* _extract_next_payload
JCrew_extract_next_payload(src) ==
    IF ~src.marker
    THEN Raised("Unable to locate __NEXT_DATA__ script in supplied HTML.")
    ELSE IF ~src.decodes
    THEN Raised("Failed to decode __NEXT_DATA__ payload.")
    ELSE Returned(src)

\* lines 59-61: entries.extend(block.get("products") or []) for each block
RECURSIVE block_products(_)
block_products(blocks) ==
    IF blocks = <<>> THEN <<>>
    ELSE items_or_empty(Head(blocks)) \o block_products(Tail(blocks))

\* _extract_product_entries that answers a missing productArray with no entries
JCrew_extract_product_entries_lenient(src) ==
    IF src.props # "dict" \/ src.initialState # "dict"
    THEN Raised("Initial state missing from __NEXT_DATA__ payload.")
    ELSE IF src.productArray # "dict"
    THEN Returned(<<>>)
    ELSE LET entries == block_products(items_or_empty(src.productList)) IN
         IF entries = <<>>
         THEN Raised("No product entries discovered in J.Crew payload.")
         ELSE Returned(entries)

\* _extract_product_entries: a container that is absent, null or empty is falsy
JCrew_extract_product_entries(src) ==
    IF src.props # "dict" \/ src.initialState # "dict"
    THEN Raised("Initial state missing from __NEXT_DATA__ payload.")
    ELSE IF src.productArray # "dict"
    THEN Raised("productArray key missing from J.Crew payload.")
    ELSE LET entries == block_products(items_or_empty(src.productList)) IN
         IF entries = <<>>
         THEN Raised("No product entries discovered in J.Crew payload.")
         ELSE Returned(entries)

\* [self._to_product(entry) for entry in entries]: the first error ends it
RECURSIVE map_entries(_, _)
map_entries(v, entries) ==
    IF entries = <<>> THEN Returned(<<>>)
    ELSE LET first == IF Head(entries).kind = "dict"
                      THEN to_product(v, Head(entries).fields)
                      ELSE Raised("AttributeError")   \* entry.get on a non-mapping
         IN  IF ~first.ok THEN first
             ELSE LET rest == map_entries(v, Tail(entries)) IN
                  IF ~rest.ok THEN rest
                  ELSE Returned(<<first.val>> \o rest.val)

\* products[:limit] if limit is not None
apply_limit(ps, lim) ==
    IF lim.kind = "none" THEN ps ELSE SliceTo(ps, lim.n)

\* JCrewPlpParser.parse_html
parse_html(src, lim) ==
    LET next_data == JCrew_extract_next_payload(src) IN
    IF ~next_data.ok THEN next_data
    ELSE LET entries == JCrew_extract_product_entries(next_data.val) IN
         IF ~entries.ok THEN entries
         ELSE LET ps == map_entries("jcrew", entries.val) IN
              IF ~ps.ok THEN ps
              ELSE Returned(apply_limit(ps.val, lim))

\* EffulgentParser._extract_entries
Cozy_extract_entries(src) ==
    LET found == find_array_blob(src.text) IN
    IF ~found.ok THEN found
    ELSE IF src.decoded.kind = "error"
    THEN Raised("Failed to decode Cozy Knits product payload.")
    ELSE IF src.decoded.kind # "list"
    THEN Raised("Expected a list of products in the Cozy Knits payload.")
    ELSE Returned(src.decoded.items)

\* EffulgentParser.parse_js
parse_js(src, lim) ==
    LET entries == Cozy_extract_entries(src) IN
    IF ~entries.ok THEN entries
    ELSE LET ps == map_entries("cozy", entries.val) IN
         IF ~ps.ok THEN ps
         ELSE Returned(apply_limit(ps.val, lim))

-----------------------------------------------------------------------------
(* app/services/ingestion.py: FileIngestor.load_products.  The file is     *)
(* modelled by the outcome of reading it: it exists or not, its text       *)
(* decodes or not, and the decoded value is a number, a mapping, a string  *)
(* or a list of items.                                                     *)

\* the whole number a text of digits spells, or -1
RECURSIVE parse_digits(_, _)
parse_digits(txt, acc) ==
    IF txt = <<>> THEN acc
    ELSE LET d == {k \in 0..9 : Digits[k + 1] = Head(txt)} IN
         IF d = {} THEN -1
         ELSE parse_digits(Tail(txt), 10 * acc + (CHOOSE k \in d : TRUE))

\* the Product fields of an item that fail type validation, in field order
MistypedFields(d) ==
    (IF d.name.kind # "str" THEN <<"name">> ELSE <<>>)
    \o (IF d.description.kind # "str" THEN <<"description">> ELSE <<>>)
    \o (IF \/ d.price.kind \in {"absent", "none"}
           \/ d.price.kind = "str"
              /\ (d.price.s = <<>> \/ parse_digits(d.price.s, 0) = -1)
        THEN <<"price">> ELSE <<>>)
    \o (IF d.currency.kind \notin {"absent", "str"} THEN <<"currency">> ELSE <<>>)
    \o (IF d.url.kind # "str" THEN <<"url">> ELSE <<>>)

\* Product.model_validate(item)
model_validate(item) ==
    IF item.kind # "dict"
    THEN [ok |-> FALSE, val |-> <<>>, err |-> "ValidationError"]
    ELSE LET d == item.fields IN
         IF MistypedFields(d) # <<>>
         THEN [ok |-> FALSE, val |-> MistypedFields(d), err |-> "ValidationError"]
         ELSE Product([name |-> d.name.s,
                       description |-> d.description.s,
                       price |-> IF d.price.kind = "num" THEN d.price.n
                                 ELSE parse_digits(d.price.s, 0),
                       currency |-> IF d.currency.kind = "absent" THEN USD
                                    ELSE d.currency.s,
                       url |-> d.url.s,
                       tags |-> <<>>,
                       availability |-> None,
                       metadata |-> <<>>])

\* [Product.model_validate(item) for item in parsed]: the first error ends it
RECURSIVE validate_items(_)
validate_items(entries) ==
    IF entries = <<>> THEN Returned(<<>>)
    ELSE LET first == model_validate(Head(entries)) IN
         IF ~first.ok THEN first
         ELSE LET rest == validate_items(Tail(entries)) IN
              IF ~rest.ok THEN rest
              ELSE Returned(<<first.val>> \o rest.val)

\* FileIngestor.load_products: a list and a string are both a Sequence
load_products(src, lim) ==
    IF ~src.exists THEN Raised("FileNotFoundError")
    ELSE IF src.decoded.kind = "error"
    THEN Raised("does not contain valid JSON")
    ELSE IF src.decoded.kind \notin {"list", "str"}
    THEN Raised("JSON data must be a list of product objects")
    ELSE LET ps == validate_items(src.decoded.items) IN
         IF ~ps.ok THEN ps
         ELSE Returned(apply_limit(ps.val, lim))

-----------------------------------------------------------------------------
(* app/services/compression.py: MarkdownCompressor.build_listing.  The     *)
(* document is the text itself, one character per element; prices are      *)
(* whole amounts.                                                          *)

DEFAULT_MAX_DESCRIPTION_CHARS == 280

\* the two characters of the entry line outside ASCII, one element each
EM_DASH    == "<U+2014>"
MIDDLE_DOT == "<U+00B7>"

NEWLINE == "\n"

NO_PRODUCTS == <<"_", "N", "o", " ", "p", "r", "o", "d", "u", "c", "t", "s", " ", "a", "v", "a", "i", "l", "a", "b", "l", "e", " ", "t", "o", " ", "s", "u", "m", "m", "a", "r", "i", "z", "e", ".", "_">>

DEFAULT_HEADING == <<"c", "o", "m", "m", "e", "r", "c", "e", ".", "t", "x", "t", " ", "s", "p", "o", "t", "l", "i", "g", "h", "t">>

\* the text of each metadata key
MetaKeyText ==
    [product_code |-> <<"p", "r", "o", "d", "u", "c", "t", "_", "c", "o", "d", "e">>,
     primary_category |-> <<"p", "r", "i", "m", "a", "r", "y", "_", "c", "a", "t", "e", "g", "o", "r", "y">>,
     badge |-> <<"b", "a", "d", "g", "e">>,
     list_price |-> <<"l", "i", "s", "t", "_", "p", "r", "i", "c", "e">>,
     search_price |-> <<"s", "e", "a", "r", "c", "h", "_", "p", "r", "i", "c", "e">>,
     url_path |-> <<"u", "r", "l", "_", "p", "a", "t", "h">>,
     rating |-> <<"r", "a", "t", "i", "n", "g">>,
     reviews |-> <<"r", "e", "v", "i", "e", "w", "s">>,
     id |-> <<"i", "d">>,
     image |-> <<"i", "m", "a", "g", "e">>,
     sizes |-> <<"s", "i", "z", "e", "s">>]

\* three digits, zero-padded
pad3(n) ==
    <<Digits[(n \div 100) + 1], Digits[((n \div 10) % 10) + 1], Digits[(n % 10) + 1]>>

\* f"{n:,}" for an integer n >= 0
RECURSIVE group_thousands(_)
group_thousands(n) ==
    IF n < 1000 THEN int_str(n)
    ELSE group_thousands(n \div 1000) \o <<",">> \o pad3(n % 1000)

\* f"{price:,.2f}" for a whole amount
format_price(n) == group_thousands(n) \o <<".", "0", "0">>

\* ", ".join(f"{k}: {v}" for k, v in product.metadata.items())
meta_hint(metadata) ==
    join(<<",", " ">>,
         [k \in 1..Len(metadata) |->
             MetaKeyText[metadata[k].key] \o <<":", " ">> \o metadata[k].value])

\* lines 27-40: the lines of one entry
entry_lines(max_chars, idx, p) ==
    LET desc == trim(max_chars, p.description)
        tags == IF p.tags # <<>> THEN join(<<",", " ">>, p.tags) ELSE <<"n", "o", " ", "t", "a", "g", "s">>
        availability == IF truthy(p.availability)
                        THEN <<" ", MIDDLE_DOT, " ">> \o p.availability.s
                        ELSE <<>>
        price == IF p.currency # <<>>
                 THEN p.currency \o <<" ">> \o format_price(p.price)
                 ELSE format_price(p.price)
    IN  << int_str(idx) \o <<".", " ", "[">> \o p.name \o <<"]", "(">> \o p.url
              \o <<")", " ", EM_DASH, " ">> \o price \o availability,
           <<" ", " ", " ", "-", " ">> \o desc,
           <<" ", " ", " ", "-", " ", "t", "a", "g", "s", ":", " ">> \o tags >>
        \o (IF p.metadata # <<>>
            THEN <<<<" ", " ", " ", "-", " ", "m", "e", "t", "a", ":", " ">> \o meta_hint(p.metadata)>>
            ELSE <<>>)
        \o << <<>> >>

\* the for loop of lines 26-40, from the idx-th product on
RECURSIVE listing_lines(_, _, _)
listing_lines(max_chars, ps, idx) ==
    IF idx > Len(ps) THEN <<>>
    ELSE entry_lines(max_chars, idx, ps[idx]) \o listing_lines(max_chars, ps, idx + 1)

\* line 42: "\n".join(line.rstrip() for line in lines).strip()
finish(lines) ==
    strip(join(<<NEWLINE>>, [k \in 1..Len(lines) |-> rstrip(lines[k])]))

\* products ordered by ascending price, ties in the given order
RECURSIVE by_price(_)
by_price(ps) ==
    IF ps = <<>> THEN <<>>
    ELSE LET low == CHOOSE k \in 1..Len(ps) :
                        /\ \A j \in 1..Len(ps) : ps[k].price <= ps[j].price
                        /\ \A j \in 1..(k - 1) : ps[j].price > ps[k].price
         IN  <<ps[low]>>
             \o by_price(SubSeq(ps, 1, low - 1) \o SubSeq(ps, low + 1, Len(ps)))

\* build_listing that lists the cheapest product first
build_listing_sorted(max_chars, ps, heading) ==
    IF ps = <<>> THEN NO_PRODUCTS
    ELSE finish(<< <<"#", "#", " ">> \o strip(or_else(heading, Str(DEFAULT_HEADING)).s),
                   <<>> >>
                \o listing_lines(max_chars, by_price(ps), 1))

\* build_listing that always prints the default heading
build_listing_untitled(max_chars, ps, heading) ==
    IF ps = <<>> THEN NO_PRODUCTS
    ELSE finish(<< <<"#", "#", " ">> \o DEFAULT_HEADING, <<>> >>
                \o listing_lines(max_chars, ps, 1))

\* build_listing, for a compressor built with max_description_chars = max_chars
build_listing(max_chars, ps, heading) ==
    IF ps = <<>> THEN NO_PRODUCTS
    ELSE finish(<< <<"#", "#", " ">> \o strip(or_else(heading, Str(DEFAULT_HEADING)).s),
                   <<>> >>
                \o listing_lines(max_chars, ps, 1))

-----------------------------------------------------------------------------
(* Specification of the batch parsers: parse_html and parse_js on sources  *)
(* with every container present, missing or empty, at most MaxBlocks       *)
(* product lists of at most MaxEntries records, and an optional limit.     *)

MaxBlocks  == 2
MaxEntries == 2
MaxLimit   == 2

Mapping(fields) == [kind |-> "dict", fields |-> fields]

\* a full record, a record with no field at all, and one whose name is too
\* short for the schema
JCrewEntries ==
    {Mapping([JCrewBlank EXCEPT !.productDescription = Str(<<"K", "n", "i", "t">>),
                                !.searchPrice = Num(2)]),
     Mapping(JCrewBlank),
     Mapping([JCrewBlank EXCEPT !.productDescription = Str(<<"x">>)])}

\* the same for Cozy Knits, and an entry that is a number, not a mapping
CozyEntries ==
    {Mapping([CozyBlank EXCEPT !.name = Str(<<"K", "n", "i", "t">>), !.id = Num(1)]),
     Mapping(CozyBlank),
     Mapping([CozyBlank EXCEPT !.name = Str(<<" ">>)]),
     [kind |-> "num", fields |-> CozyBlank]}

EntryLists(entries, n) == UNION {[1..k -> entries] : k \in 0..n}

\* a block of productList: its "products" key absent, or a list of records
Blocks == {AbsentList} \cup {List(e) : e \in EntryLists(JCrewEntries, MaxEntries)}

ProductLists ==
    {AbsentList, NoneList}
    \cup {List(b) : b \in UNION {[1..k -> Blocks] : k \in 0..MaxBlocks}}

JCrewSource(marker, decodes, props, initialState, productArray, productList) ==
    [vendor |-> "jcrew", marker |-> marker, decodes |-> decodes, props |-> props,
     initialState |-> initialState, productArray |-> productArray,
     productList |-> productList]

ContainerKinds == {"absent", "none", "empty", "dict"}

\* each source fails at one stage, or has every container down to productArray
JCrewSources ==
    {JCrewSource(FALSE, FALSE, "absent", "absent", "absent", AbsentList),
     JCrewSource(TRUE, FALSE, "absent", "absent", "absent", AbsentList)}
    \cup {JCrewSource(TRUE, TRUE, k, "absent", "absent", AbsentList) :
            k \in ContainerKinds \ {"dict"}}
    \cup {JCrewSource(TRUE, TRUE, "dict", k, "absent", AbsentList) :
            k \in ContainerKinds \ {"dict"}}
    \cup {JCrewSource(TRUE, TRUE, "dict", "dict", k, AbsentList) :
            k \in ContainerKinds \ {"dict"}}
    \cup {JCrewSource(TRUE, TRUE, "dict", "dict", "dict", l) : l \in ProductLists}

\* bundles with no prefix, with no bracket, with an open array, with an array
BundleTexts ==
    {<<"x", "=", "[", "]">>,
     ARRAY_PREFIXES[6] \o <<"1", ";">>,
     ARRAY_PREFIXES[4] \o <<"[", "{">>,
     ARRAY_PREFIXES[1] \o <<"[", "{", "}", "]", ";">>}

Decoded ==
    {[kind |-> "error", items |-> <<>>], [kind |-> "dict", items |-> <<>>]}
    \cup {[kind |-> "list", items |-> e] : e \in EntryLists(CozyEntries, MaxEntries)}

CozySources ==
    {[vendor |-> "cozy", text |-> t, decoded |-> v] : t \in BundleTexts, v \in Decoded}

FileBlank == [name |-> Absent, description |-> Absent, price |-> Absent,
              currency |-> Absent, url |-> Absent]

FileGood ==
    [FileBlank EXCEPT !.name = Str(<<"K", "n", "i", "t">>),
                      !.description = Str(<<"W", "a", "r", "m">>),
                      !.price = Num(2),
                      !.url = Str(HTTPS \o <<"x">>)]

\* a full item, one whose name is too short, one with no field, a number and a
\* one-character string
FileEntries ==
    {Mapping(FileGood),
     Mapping([FileGood EXCEPT !.name = Str(<<"x">>)]),
     Mapping(FileBlank),
     [kind |-> "num", fields |-> FileBlank],
     [kind |-> "str", fields |-> FileBlank]}

\* the decoded file: no JSON, a number, a mapping, a string or a list
FileDecoded ==
    {[kind |-> k, items |-> <<>>] : k \in {"error", "num", "dict"}}
    \cup {[kind |-> "str", items |-> [i \in 1..k |-> [kind |-> "str", fields |-> FileBlank]]] :
            k \in 0..MaxEntries}
    \cup {[kind |-> "list", items |-> e] : e \in EntryLists(FileEntries, MaxEntries)}

FileSources ==
    {[vendor |-> "file", exists |-> FALSE, decoded |-> [kind |-> "error", items |-> <<>>]]}
    \cup {[vendor |-> "file", exists |-> TRUE, decoded |-> v] : v \in FileDecoded}

Limits == {None} \cup {Num(k) : k \in 1..MaxLimit}

InitParse ==
    /\ pc = "call"
    /\ payload \in JCrewSources \cup CozySources \cup FileSources
    /\ limit \in Limits
    /\ parsed = NotCalled
    /\ IdleScan /\ IdleRepair /\ IdleMap /\ IdleTrim /\ IdleListing

\* JCrewPlpParser.parse_html(html, limit)
ParseHtml ==
    /\ pc = "call"
    /\ payload.vendor = "jcrew"
    /\ parsed' = parse_html(payload, limit)
    /\ pc' = "done"
    /\ UNCHANGED <<payload, limit, scanVars, repairVars, mapVars, trimVars,
                   listingVars>>

\* EffulgentParser.parse_js(path, limit)
ParseJs ==
    /\ pc = "call"
    /\ payload.vendor = "cozy"
    /\ parsed' = parse_js(payload, limit)
    /\ pc' = "done"
    /\ UNCHANGED <<payload, limit, scanVars, repairVars, mapVars, trimVars,
                   listingVars>>

\* FileIngestor.load_products(path, limit)
LoadProducts ==
    /\ pc = "call"
    /\ payload.vendor = "file"
    /\ parsed' = load_products(payload, limit)
    /\ pc' = "done"
    /\ UNCHANGED <<payload, limit, scanVars, repairVars, mapVars, trimVars,
                   listingVars>>

NextParse == ParseHtml \/ ParseJs \/ LoadProducts

SpecParse == InitParse /\ [][NextParse]_vars

\* the raw records a source enumerates, in source order
RawRecords(src) ==
    IF src.vendor = "jcrew"
    THEN block_products(items_or_empty(src.productList))
    ELSE src.decoded.items

\* a J.Crew source read down to initialState
ReadsInitialState(src) ==
    /\ src.vendor = "jcrew"
    /\ src.marker /\ src.decodes
    /\ src.props = "dict" /\ src.initialState = "dict"

\* a J.Crew source whose productArray is there and lists no record
ZeroResults(src) ==
    /\ src.productArray = "dict"
    /\ src.productList.kind = "list"
    /\ RawRecords(src) = <<>>

\* C7: a J.Crew payload whose productArray container is present but enumerates
\* no product record parses to the empty product list, which the compressor
\* renders as the "no products" sentinel; the parse fails when the productArray
\* key is absent.
C7_ZeroResultsValid ==
    (pc = "done" /\ ReadsInitialState(payload)) =>
        /\ ZeroResults(payload) =>
              /\ parsed = Returned(<<>>)
              /\ build_listing(DEFAULT_MAX_DESCRIPTION_CHARS, parsed.val, None)
                    = NO_PRODUCTS
        /\ payload.productArray = "absent" => ~parsed.ok

\* a marker, literal, shape, container or section is missing
StructuralFailure(src) ==
    IF src.vendor = "jcrew"
    THEN \/ ~src.marker \/ ~src.decodes
         \/ src.props # "dict" \/ src.initialState # "dict"
         \/ src.productArray \in {"absent", "none"}
         \/ src.productList.kind # "list"
    ELSE \/ \A k \in 1..Len(ARRAY_PREFIXES) : find(src.text, ARRAY_PREFIXES[k]) = -1
         \/ ~find_array_blob(src.text).ok
         \/ src.decoded.kind # "list"

\* C8: parse_html and parse_js either fail, or return one Product for every raw
\* record of the payload in source order, cut to the first limit when a limit is
\* given; a missing marker, literal, shape, container or section ends in an error.
C8_AllOrNothing ==
    (pc = "done" /\ payload.vendor \in {"jcrew", "cozy"}) =>
        /\ StructuralFailure(payload) => ~parsed.ok
        /\ parsed.ok =>
              LET raw == RawRecords(payload)
                  n == IF limit.kind = "none" THEN Len(raw)
                       ELSE Min(limit.n, Len(raw))
              IN  /\ Len(parsed.val) = n
                  /\ \A i \in 1..n :
                        /\ raw[i].kind = "dict"
                        /\ to_product(payload.vendor, raw[i].fields)
                              = Returned(parsed.val[i])

\* a limit below the number of records: the first limit products are returned
C8_Witness ==
    /\ pc = "done"
    /\ payload.vendor \in {"jcrew", "cozy"}
    /\ parsed.ok
    /\ limit.kind = "num"
    /\ Len(RawRecords(payload)) > limit.n
    /\ Len(parsed.val) = limit.n

\* the source is read down to its decoded value
Decodes(src) ==
    IF src.vendor = "cozy"
    THEN find_array_blob(src.text).ok /\ src.decoded.kind # "error"
    ELSE src.exists /\ src.decoded.kind # "error"

\* the decoded value is not a sequence, or holds an element that is no mapping
WronglyShaped(src) ==
    \/ src.decoded.kind # "list"
    \/ \E i \in 1..Len(src.decoded.items) : src.decoded.items[i].kind # "dict"

ShapeError(src) ==
    IF src.vendor = "cozy"
    THEN Raised("Expected a list of products in the Cozy Knits payload.")
    ELSE Raised("JSON data must be a list of product objects")

\* C11: whenever the decoded payload of parse_js or load_products is not a
\* sequence, or is a sequence with an element that is not a mapping, the call
\* fails with the shape error and with no other kind of failure.
C11_ShapeCheck ==
    (/\ pc = "done"
     /\ payload.vendor \in {"cozy", "file"}
     /\ Decodes(payload)
     /\ WronglyShaped(payload)) =>
        parsed = ShapeError(payload)

\* the base URL that tests/test_effulgent_parser.py expects of the first product
TEST_BASE_URL ==
    <<"h", "t", "t", "p", "s", ":", "/", "/", "e", "f", "f", "u", "l", "g",
      "e", "n", "t", "-", "k", "a", "t", "a", "i", "f", "i", "-", "4", "f",
      "c", "5", "6", "b", ".", "n", "e", "t", "l", "i", "f", "y", ".", "a",
      "p", "p">>

\* C12: every Product returned by EffulgentParser.parse_js has a url that
\* starts with "https://effulgent-kataifi-4fc56b.netlify.app".
C12_CozyUrlBase ==
    (pc = "done" /\ payload.vendor = "cozy" /\ parsed.ok) =>
        \A i \in 1..Len(parsed.val) : startswith(parsed.val[i].url, TEST_BASE_URL)

\* the raw records the call reads before it maps any of them, or its error
RecordsRead(src) ==
    IF src.vendor = "jcrew"
    THEN LET next_data == JCrew_extract_next_payload(src) IN
         IF next_data.ok THEN JCrew_extract_product_entries(next_data.val)
         ELSE next_data
    ELSE IF src.vendor = "cozy" THEN Cozy_extract_entries(src)
    ELSE IF src.exists /\ src.decoded.kind \in {"list", "str"}
    THEN Returned(src.decoded.items)
    ELSE Raised("not read")

\* the mapping of the given records alone
MapRecords(v, records) ==
    IF v = "file" THEN validate_items(records) ELSE map_entries(v, records)

\* C17: when a limit k >= 1 is given, the outcome of parse_html, parse_js and
\* load_products is the mapping of the first k raw records; a record after
\* position k neither changes the returned list nor makes the call fail.
C17_LimitLocality ==
    (pc = "done" /\ limit.kind = "num" /\ RecordsRead(payload).ok) =>
        parsed = MapRecords(payload.vendor,
                            SliceTo(RecordsRead(payload).val, limit.n))

-----------------------------------------------------------------------------
(* Specification of the listing: build_listing on the first limit of at    *)
(* most MaxProducts products, as the pipeline calls it.                    *)

MaxProducts == 3
SmallBudget == 6

\* products as the mappers return them, and two with tags, metadata, a long
\* description and a higher or lower price
ListingProducts ==
    {to_product("jcrew", e.fields).val :
        e \in {x \in JCrewEntries : to_product("jcrew", x.fields).ok}}
    \cup {to_product("cozy", e.fields).val :
        e \in {x \in CozyEntries : x.kind = "dict" /\ to_product("cozy", x.fields).ok}}
    \cup {to_product("jcrew",
                     [JCrewBlank EXCEPT !.productDescription = Str(<<"W", "o", "o", "l", " ", "c", "r", "e", "w", " ", "n", "e", "c", "k">>),
                                        !.listPrice = ListPrice(Num(1), Absent),
                                        !.primaryCategoryId = Str(<<"M", "e", "n", "s", "|", "S", "w", "e", "a", "t", "e", "r", "s">>),
                                        !.bvReviewCount = Num(2)]).val}

Titles == {None, Str(<<"T">>), Str(<<" ", "T", " ">>)}

InitListing ==
    /\ pc = "call"
    /\ products \in UNION {[1..k -> ListingProducts] : k \in 0..MaxProducts}
    /\ title \in Titles
    /\ limit \in Limits
    /\ max_description_chars \in {SmallBudget, DEFAULT_MAX_DESCRIPTION_CHARS}
    /\ markdown = <<>>
    /\ output_path = NoFile
    /\ description = <<>> /\ trimmed = <<>>
    /\ payload = <<>> /\ parsed = NotCalled
    /\ IdleScan /\ IdleRepair /\ IdleMap

\* CommercePipeline.build_markdown on the products the parser returned
BuildMarkdown ==
    /\ pc = "call"
    /\ markdown' = build_listing(max_description_chars,
                                 apply_limit(products, limit), title)
    /\ pc' = "done"
    /\ UNCHANGED <<products, title, limit, max_description_chars, description,
                   trimmed, payload, parsed, output_path, scanVars, repairVars,
                   mapVars>>

NextListing == BuildMarkdown

SpecListing == InitListing /\ [][NextListing]_vars

\* C9: for a sequence of n products and 0 < k < n, the document of the first k
\* products is the document of the whole sequence up to the blank line before
\* entry k + 1: same heading, same numbering 1..k, same lines per entry, same
\* order.
C9_LimitMonotonic ==
    (pc = "done" /\ limit.kind = "num" /\ limit.n < Len(products)) =>
        LET full == build_listing(max_description_chars, products, title)
            head == markdown \o <<NEWLINE, NEWLINE>>
                    \o int_str(limit.n + 1) \o <<".", " ", "[">>
        IN  /\ Len(head) <= Len(full)
            /\ SubSeq(full, 1, Len(head)) = head

\* a limit that cuts a sequence of different products
C9_Witness ==
    /\ pc = "done"
    /\ limit.kind = "num"
    /\ limit.n < Len(products)
    /\ products[1] # products[Len(products)]
    /\ products[1].price > products[Len(products)].price
    /\ markdown # NO_PRODUCTS

-----------------------------------------------------------------------------
(* app/services/pipeline.py: CommercePipeline.write_markdown.  The file    *)
(* holds the UTF-8 bytes of the document; a byte below 0x80 is written as  *)
(* the character it encodes.                                               *)

\* str.encode("utf-8") of one character
utf8_char(c) ==
    IF c = EM_DASH THEN <<"0xE2", "0x80", "0x94">>
    ELSE IF c = MIDDLE_DOT THEN <<"0xC2", "0xB7">>
    ELSE <<c>>

\* Path.write_text(text, encoding="utf-8"): the bytes written
RECURSIVE utf8_encode(_)
utf8_encode(txt) ==
    IF txt = <<>> THEN <<>>
    ELSE IF Len(txt) = 1 THEN utf8_char(txt[1])
    ELSE LET half == Len(txt) \div 2 IN
         utf8_encode(SubSeq(txt, 1, half))
         \o utf8_encode(SubSeq(txt, half + 1, Len(txt)))

\* the bytes that continue a character
ContinuationBytes == {"0x80", "0x94", "0xB7"}

\* the character that starts at byte i; U+FFFD stands for a malformed sequence
utf8_char_at(bytes, i) ==
    IF bytes[i] = "0xE2"
    THEN IF i + 2 <= Len(bytes) /\ SubSeq(bytes, i, i + 2) = utf8_char(EM_DASH)
         THEN EM_DASH ELSE "<U+FFFD>"
    ELSE IF bytes[i] = "0xC2"
    THEN IF i + 1 <= Len(bytes) /\ SubSeq(bytes, i, i + 1) = utf8_char(MIDDLE_DOT)
         THEN MIDDLE_DOT ELSE "<U+FFFD>"
    ELSE bytes[i]

\* Path.read_text(encoding="utf-8"): the text the bytes spell
utf8_decode(bytes) ==
    LET IsLead(i) == bytes[i] \notin ContinuationBytes
        leads == SelectSeq([i \in 1..Len(bytes) |-> i], IsLead)
    IN  [k \in 1..Len(leads) |-> utf8_char_at(bytes, leads[k])]

-----------------------------------------------------------------------------
(* Specification of the pipeline: write_markdown on J.Crew pages with at   *)
(* most one product list, every title form and an optional limit.          *)

PipelineSources ==
    {src \in JCrewSources : Len(items_or_empty(src.productList)) <= 1}

PipelineTitles == Titles \cup {Str(<<>>), Str(<<" ">>), Str(<<"T", " ", "x">>)}

InitPipeline ==
    /\ pc = "call"
    /\ payload \in PipelineSources
    /\ title \in PipelineTitles
    /\ limit \in Limits
    /\ parsed = NotCalled
    /\ products = <<>>
    /\ markdown = <<>>
    /\ output_path = NoFile
    /\ IdleScan /\ IdleRepair /\ IdleMap /\ IdleTrim

\* CommercePipeline.write_markdown(html_path, output_path, title=, limit=)
WriteMarkdown ==
    /\ pc = "call"
    /\ LET ps == parse_html(payload, limit) IN
       /\ parsed' = ps
       /\ IF ps.ok
          THEN /\ products' = ps.val
               /\ markdown' = build_listing(DEFAULT_MAX_DESCRIPTION_CHARS, ps.val, title)
               /\ output_path' = File(utf8_encode(markdown'))
          ELSE UNCHANGED <<products, markdown, output_path>>
    /\ pc' = "done"
    /\ UNCHANGED <<payload, limit, title, scanVars, repairVars, mapVars, trimVars>>

NextPipeline == WriteMarkdown

SpecPipeline == InitPipeline /\ [][NextPipeline]_vars

HeadingLine(t) ==
    IF t.kind = "none" \/ t.s = <<>> THEN <<"#", "#", " ">> \o DEFAULT_HEADING
    ELSE rstrip(<<"#", "#", " ">> \o strip(t.s))

====
